---- MODULE Spec2Model ----
(***************************************************************************)
(* Model of the Document-chatbot repository.                               *)
(*                                                                         *)
(*   src/local/ingest.py      the ingestion job: split_text, get_embedding *)
(*                            (bounded retry), cleanup_invalid_docs,       *)
(*                            upload_docs_batched, process_pdf_blob,       *)
(*                            reingest_from_blob and the main flow         *)
(*   src/local/api_server.py  the query service: get_embedding,            *)
(*                            search_docs, answer_with_gpt and ask         *)
(*                                                                         *)
(* The ingestion job is a single-threaded Python program.  Its control     *)
(* state is a call stack of function frames (stack) plus the locals of     *)
(* each function; a raise that no frame catches unwinds the whole stack.   *)
(* The external services (embedding, search index, blob store, completion) *)
(* answer nondeterministically: every call may succeed or fail.            *)
(*                                                                         *)
(* Texts are sequences of one-character strings, so that trimming and      *)
(* slicing are computed and not assumed.                                   *)
(***************************************************************************)
EXTENDS Integers, Sequences, FiniteSets, TLC

VARIABLES
    \* ---- split_text under test (ingest.py:56-72)
    s_pc, s_text, s_size, s_overlap, s_chunks, s_windows,
    \* ---- the ingestion program (ingest.py)
    stack,      \* call stack: sequence of function names, innermost last
    status,     \* "idle" | "running" | "returned" | "raised"
    error,      \* the exception that ended the program, when status = "raised"
    runs,       \* how many times the outermost function has been started
    index,      \* the search index: a set of chunk records keyed by chunk_id
    nextId,     \* source of fresh chunk ids (uuid.uuid4)
    corpus,     \* the blob container: a sequence of blobs in listing order
    reads,      \* the blobs downloaded so far in this run, in order
    \* get_embedding: text, loop variable, the calls and sleeps made, result
    e_text, e_attempt, e_log, e_ret,
    \* upload_docs_batched: docs, batch_size, loop variable i, requests sent
    u_docs, u_bs, u_i, u_sent,
    \* cleanup_invalid_docs: where in the loop body, total_deleted, batch,
    \* the requests made to the index by every run so far, the value returned
    c_pc, c_total, c_batch, c_log, c_ret,
    \* process_pdf_blob: blob_name, file_name, folder, reader.pages, page_idx,
    \* the pieces of the page, the index of the piece, docs
    p_pc, p_name, p_file, p_folder, p_pages, p_page, p_pieces, p_k, p_docs,
    \* reingest_from_blob: prefix, blobs, loop position, total_chunks, value
    \* returned
    r_pc, r_prefix, r_blobs, r_i, r_total, r_ret,
    \* main flow: position, deleted, total, first chunk id of this run
    m_pc, m_deleted, m_total, m_firstId,
    \* ---- one ask request (api_server.py)
    a_pc, a_topk, a_calls, a_docs, a_context, a_result, a_fault

splitVars == <<s_pc, s_text, s_size, s_overlap, s_chunks, s_windows>>
ctlVars   == <<stack, status, error>>
envVars   == <<corpus, reads>>
embedVars == <<e_text, e_attempt, e_log, e_ret>>
uploadVars == <<u_docs, u_bs, u_i, u_sent>>
cleanupVars == <<c_pc, c_total, c_batch, c_log, c_ret>>
procVars  == <<p_pc, p_name, p_file, p_folder, p_pages, p_page, p_pieces, p_k, p_docs>>
reingestVars == <<r_pc, r_prefix, r_blobs, r_i, r_total, r_ret>>
mainVars  == <<m_pc, m_deleted, m_total, m_firstId>>
askVars   == <<a_pc, a_topk, a_calls, a_docs, a_context, a_result, a_fault>>
ingestVars == <<ctlVars, runs, index, nextId, envVars, embedVars, uploadVars,
                cleanupVars, procVars, reingestVars, mainVars>>
vars == <<splitVars, ingestVars, askVars>>

\* what no step of the ingestion program touches
outside == <<splitVars, askVars>>

----------------------------------------------------------------------------
(* Bounds of the model *)

MaxLen == 5          \* longest text given to split_text
MaxSize == 3         \* largest window size given to split_text
MaxPieceLen == 2     \* longest text given to get_embedding on its own
MaxDocs == 5         \* most records given to upload_docs_batched on its own
MaxBatch == 3        \* largest batch_size given to upload_docs_batched on its own
MaxSeed == 3         \* most records in the index before cleanup on its own
MaxRuns == 2         \* how many times in succession a job is started
MaxBlobs == 3        \* most blobs in the container
MaxHits == 2         \* most hits the index returns to one query
MaxScore == 3        \* largest relevance score of a hit
MaxTopK == 2         \* largest top_k of a request

----------------------------------------------------------------------------
(* Texts *)

Chars == {"a", "b", " "}

IsSpace(c) == c = " "

TextsUpTo(n) == UNION {[1..k -> Chars] : k \in 0..n}

Min(a, b) == IF a < b THEN a ELSE b

Max(a, b) == IF a > b THEN a ELSE b

\* Python slice text[lo:hi] for 0 <= lo <= hi <= len(text)
Slice(text, lo, hi) == SubSeq(text, lo + 1, hi)

RECURSIVE lstrip(_)
lstrip(text) ==
    IF text # <<>> /\ IsSpace(Head(text)) THEN lstrip(Tail(text)) ELSE text

RECURSIVE rstrip(_)
rstrip(text) ==
    IF text # <<>> /\ IsSpace(text[Len(text)])
    THEN rstrip(SubSeq(text, 1, Len(text) - 1))
    ELSE text

\* str.strip()
strip(text) == rstrip(lstrip(text))

----------------------------------------------------------------------------
(* split_text, ingest.py:56-72 *)

CHUNK_SIZE == 1000
CHUNK_OVERLAP == 100

\* a variant that forgets the overlap clamp and steps past the window end
next_start_gap(end, overlap) == end - overlap + 1

\* lines 69-71: start = end - overlap; if start < 0: start = 0
next_start(end, overlap) ==
    IF end - overlap < 0 THEN 0 ELSE end - overlap

\* lines 63-72: the while loop, from the given start with the windows taken
\* so far; each window is recorded with its offsets next to its text
RECURSIVE split_loop(_, _, _, _, _)
split_loop(text, size, overlap, start, acc) ==
    LET n == Len(text) IN
    IF ~(start < n) THEN acc
    ELSE LET end == Min(start + size, n)
             chunk == Slice(text, start, end)
             acc2 == Append(acc, [start |-> start, end |-> end, chunk |-> chunk])
         IN  IF end = n THEN acc2
             ELSE split_loop(text, size, overlap, next_start(end, overlap), acc2)

\* the windows of the trimmed text (lines 57-62 then the loop)
split_windows(text, size, overlap) ==
    LET t == strip(text) IN
    IF t = <<>> THEN <<>> ELSE split_loop(t, size, overlap, 0, <<>>)

split_text(text, size, overlap) ==
    LET w == split_windows(text, size, overlap) IN
    [i \in 1..Len(w) |-> w[i].chunk]

----------------------------------------------------------------------------
(* Python control flow of the ingestion program *)

Top == IF stack = <<>> THEN "" ELSE stack[Len(stack)]

\* a function returns to its caller; the program ends when the outermost returns
do_return ==
    /\ stack' = SubSeq(stack, 1, Len(stack) - 1)
    /\ status' = IF Len(stack) = 1 THEN "returned" ELSE status
    /\ error' = error

\* an exception no frame of ingest.py catches: the whole program ends
do_raise(src, err) ==
    /\ stack' = <<>>
    /\ status' = "raised"
    /\ error' = [src |-> src, err |-> err]

do_call(fn) ==
    /\ stack' = Append(stack, fn)
    /\ status' = "running"
    /\ error' = error

NoError == [src |-> "", err |-> ""]

----------------------------------------------------------------------------
(* Index records, ingest.py:151-162, and the index service *)

\* the vector the embedding service computes for a text: the service is a
\* function of the text, and a vector is told apart by the text it embeds
embedding_of(text) == [embeds |-> text]

\* JSON null in a string field: no text is equal to it
Null == <<"null">>

\* urllib.parse.quote on one character: "/" and unreserved characters are
\* kept, a space becomes %20
quote_char(c) == IF c = " " THEN <<"%", "2", "0">> ELSE <<c>>

RECURSIVE quote(_)
quote(s) == IF s = <<>> THEN <<>> ELSE quote_char(Head(s)) \o quote(Tail(s))

\* build_blob_url, lines 74-77: account and container are fixed, what varies
\* is the encoded name and the page anchor
build_blob_url(blob_name, page_num) ==
    [path |-> quote(blob_name), page |-> page_num]

\* lines 151-162: the record appended for one piece
make_doc(id, blob_name, file_name, folder, page_idx, piece, vec) ==
    [action |-> "upload", chunk_id |-> id, parent_id |-> file_name,
     file |-> file_name, folder |-> folder, title |-> file_name,
     page |-> page_idx, url |-> build_blob_url(blob_name, page_idx),
     chunk |-> piece, text_vector |-> vec]

\* what the index keeps of a write action: the fields without @search.action
stored(doc) == [f \in (DOMAIN doc) \ {"action"} |-> doc[f]]

\* a record already in the index before the job starts
seed_rec(id, file) ==
    [chunk_id |-> id, parent_id |-> file, file |-> file, folder |-> <<>>,
     title |-> file, page |-> 1, url |-> build_blob_url(file, 1),
     chunk |-> <<"a">>, text_vector |-> embedding_of(<<"a">>)]

\* the index applies a batch of upload actions: insert or replace by chunk_id
upsert(idx, batch) ==
    {r \in idx : \A i \in DOMAIN batch : batch[i].chunk_id # r.chunk_id}
        \cup {stored(batch[i]) : i \in DOMAIN batch}

\* the index applies delete actions for the given chunk ids
delete_ids(idx, ids) == {r \in idx : r.chunk_id \notin ids}

----------------------------------------------------------------------------
(* get_embedding with retry, ingest.py:45-54 *)

MAX_ATTEMPTS == 3
BACKOFF_MS == 600

\* the ways a service call fails
Errors == {"timeout", "server"}


AttemptOkEv(v) == [kind |-> "attempt", ok |-> TRUE, vec |-> <<v>>, err |-> "", ms |-> 0]

AttemptFailEv(err) == [kind |-> "attempt", ok |-> FALSE, vec |-> <<>>, err |-> err, ms |-> 0]

SleepEv(ms) == [kind |-> "sleep", ok |-> FALSE, vec |-> <<>>, err |-> "", ms |-> ms]

\* entering get_embedding(text): the for loop starts at attempt 0
get_embedding_enter(text) ==
    /\ do_call("get_embedding")
    /\ e_text' = text
    /\ e_attempt' = 0
    /\ e_log' = <<>>
    /\ e_ret' = <<>>

\* a variant that never gives up: it sleeps and retries after the last attempt
is_last_attempt_never(attempt) == FALSE

\* line 52: if attempt == 2
is_last_attempt(attempt) == attempt = MAX_ATTEMPTS - 1

\* lines 49-50: the service answers; the vector is returned at once
EmbedAttemptOk ==
    /\ Top = "get_embedding"
    /\ e_log' = Append(e_log, AttemptOkEv(embedding_of(e_text)))
    /\ e_ret' = <<embedding_of(e_text)>>
    /\ do_return
    /\ UNCHANGED <<e_text, e_attempt>>
    /\ UNCHANGED <<runs, index, nextId, envVars, uploadVars, cleanupVars,
                   procVars, reingestVars, mainVars, outside>>

\* lines 51-54: the service fails; raise on the last attempt, else sleep
\* 0.6 * (attempt + 1) seconds and go round the loop
EmbedAttemptFail ==
    /\ Top = "get_embedding"
    /\ \E err \in Errors :
        IF is_last_attempt(e_attempt)
        THEN /\ e_log' = Append(e_log, AttemptFailEv(err))
             /\ do_raise("get_embedding", err)
             /\ UNCHANGED e_attempt
        ELSE /\ e_log' = Append(Append(e_log, AttemptFailEv(err)),
                                SleepEv(BACKOFF_MS * (e_attempt + 1)))
             /\ e_attempt' = e_attempt + 1
             /\ UNCHANGED ctlVars
    /\ UNCHANGED <<e_text, e_ret>>
    /\ UNCHANGED <<runs, index, nextId, envVars, uploadVars, cleanupVars,
                   procVars, reingestVars, mainVars, outside>>

----------------------------------------------------------------------------
(* upload_docs_batched, ingest.py:117-128 *)

BATCH_UPLOAD == 500

\* a variant whose batches run one record past their end
batch_of_long(docs, i, batch_size) ==
    Slice(docs, i, Min(i + batch_size + 1, Len(docs)))

\* line 121: batch = docs[i:i+batch_size]
batch_of(docs, i, batch_size) == Slice(docs, i, Min(i + batch_size, Len(docs)))

upload_docs_batched_enter(docs, batch_size) ==
    /\ do_call("upload_docs_batched")
    /\ u_docs' = docs
    /\ u_bs' = batch_size
    /\ u_i' = 0
    /\ u_sent' = <<>>

\* lines 120-124: the write of the batch at i succeeds, the loop goes on
UploadBatchOk ==
    /\ Top = "upload_docs_batched"
    /\ u_i < Len(u_docs)
    /\ LET batch == batch_of(u_docs, u_i, u_bs) IN
        /\ u_sent' = Append(u_sent, [batch |-> batch, ok |-> TRUE])
        /\ index' = upsert(index, batch)
    /\ u_i' = u_i + u_bs
    /\ UNCHANGED <<u_docs, u_bs>>
    /\ UNCHANGED <<ctlVars, runs, nextId, envVars, embedVars, cleanupVars,
                   procVars, reingestVars, mainVars, outside>>

\* lines 122-128: the write of the batch at i fails; the failure is printed
\* and raised again, nothing of the batch is applied
UploadBatchFail ==
    /\ Top = "upload_docs_batched"
    /\ u_i < Len(u_docs)
    /\ u_sent' = Append(u_sent, [batch |-> batch_of(u_docs, u_i, u_bs), ok |-> FALSE])
    /\ \E err \in Errors : do_raise("upload_docs_batched", err)
    /\ UNCHANGED <<u_docs, u_bs, u_i>>
    /\ UNCHANGED <<runs, index, nextId, envVars, embedVars, cleanupVars,
                   procVars, reingestVars, mainVars, outside>>

\* line 120: the range is exhausted
UploadReturn ==
    /\ Top = "upload_docs_batched"
    /\ ~(u_i < Len(u_docs))
    /\ do_return
    /\ UNCHANGED <<runs, index, nextId, envVars, embedVars, uploadVars,
                   cleanupVars, procVars, reingestVars, mainVars, outside>>

----------------------------------------------------------------------------
(* cleanup_invalid_docs, ingest.py:79-115 *)

PAGE_TOP == 1000

\* a variant of the filter that forgets the empty string
is_invalid_null_only(r) == r.file = Null

\* line 85: the filter "(file eq null) or (file eq '')"
is_invalid(r) == r.file = Null \/ r.file = <<>>

\* search_invalid_docs(top, skip=0), lines 79-92: the pages the index may
\* answer with, as sets of chunk ids.  The index returns at most top matches
\* and, as long as there is a match, at least one.
search_invalid_docs(idx, top) ==
    LET ids == {r.chunk_id : r \in {x \in idx : is_invalid(x)}} IN
    IF ids = {} THEN {{}}
    ELSE {page \in SUBSET ids : page # {} /\ Cardinality(page) <= top}

cleanup_invalid_docs_enter ==
    /\ do_call("cleanup_invalid_docs")
    /\ c_pc' = "search"
    /\ c_total' = 0
    /\ c_batch' = {}
    /\ c_log' = c_log
    /\ c_ret' = <<>>

\* lines 108-110: the query answers; an empty batch ends the loop and the
\* function returns total_deleted (line 115)
CleanupSearchOk ==
    /\ Top = "cleanup_invalid_docs"
    /\ c_pc = "search"
    /\ c_log' = Append(c_log, [run |-> runs, op |-> "search", ids |-> {}])
    /\ \E page \in search_invalid_docs(index, PAGE_TOP) :
        IF page = {}
        THEN /\ c_ret' = <<c_total>>
             /\ do_return
             /\ UNCHANGED <<c_pc, c_batch>>
        ELSE /\ c_batch' = page
             /\ c_pc' = "delete"
             /\ UNCHANGED <<c_ret, ctlVars>>
    /\ UNCHANGED <<c_total>>
    /\ UNCHANGED <<runs, index, nextId, envVars, embedVars, uploadVars,
                   procVars, reingestVars, mainVars, outside>>

\* lines 90-91: the query fails, raise_for_status raises
CleanupSearchFail ==
    /\ Top = "cleanup_invalid_docs"
    /\ c_pc = "search"
    /\ c_log' = Append(c_log, [run |-> runs, op |-> "search", ids |-> {}])
    /\ \E err \in Errors : do_raise("search_invalid_docs", err)
    /\ UNCHANGED <<c_pc, c_total, c_batch, c_ret>>
    /\ UNCHANGED <<runs, index, nextId, envVars, embedVars, uploadVars,
                   procVars, reingestVars, mainVars, outside>>

\* lines 111-114 with delete_docs_by_chunk_ids, lines 94-101: the ids of the
\* batch are deleted in one request (none is sent for an empty list) and
\* counted
CleanupDeleteOk ==
    /\ Top = "cleanup_invalid_docs"
    /\ c_pc = "delete"
    /\ c_log' = IF c_batch = {} THEN c_log
                ELSE Append(c_log, [run |-> runs, op |-> "delete", ids |-> c_batch])
    /\ index' = delete_ids(index, c_batch)
    /\ c_total' = c_total + Cardinality(c_batch)
    /\ c_pc' = "search"
    /\ UNCHANGED <<c_batch, c_ret>>
    /\ UNCHANGED <<ctlVars, runs, nextId, envVars, embedVars, uploadVars,
                   procVars, reingestVars, mainVars, outside>>

\* lines 100-101: the delete request fails, raise_for_status raises
CleanupDeleteFail ==
    /\ Top = "cleanup_invalid_docs"
    /\ c_pc = "delete"
    /\ c_batch # {}
    /\ c_log' = Append(c_log, [run |-> runs, op |-> "delete", ids |-> c_batch])
    /\ \E err \in Errors : do_raise("delete_docs_by_chunk_ids", err)
    /\ UNCHANGED <<c_pc, c_total, c_batch, c_ret>>
    /\ UNCHANGED <<runs, index, nextId, envVars, embedVars, uploadVars,
                   procVars, reingestVars, mainVars, outside>>

----------------------------------------------------------------------------
(* Blob names: os.path and str helpers used by ingest.py *)

Slashes(name) == {i \in 1..Len(name) : name[i] = "/"}

LastSlash(name) ==
    IF Slashes(name) = {} THEN 0
    ELSE CHOOSE i \in Slashes(name) : \A j \in Slashes(name) : j <= i

FirstSlash(name) ==
    IF Slashes(name) = {} THEN Len(name) + 1
    ELSE CHOOSE i \in Slashes(name) : \A j \in Slashes(name) : i <= j

\* os.path.basename: what follows the last "/"
basename(name) == SubSeq(name, LastSlash(name) + 1, Len(name))

RECURSIVE rstrip_slash(_)
rstrip_slash(s) ==
    IF s # <<>> /\ s[Len(s)] = "/" THEN rstrip_slash(SubSeq(s, 1, Len(s) - 1))
    ELSE s

\* os.path.dirname: what precedes the last "/", without trailing slashes
\* unless it consists of slashes only
dirname(name) ==
    LET head == SubSeq(name, 1, LastSlash(name)) IN
    IF head # <<>> /\ (\E i \in 1..Len(head) : head[i] # "/")
    THEN rstrip_slash(head) ELSE head

\* s.split("/")[0]
first_segment(s) == SubSeq(s, 1, FirstSlash(s) - 1)

\* line 134: the top-level directory, or "" for a name without "/"
folder_of(blob_name) ==
    IF Slashes(blob_name) # {} THEN first_segment(dirname(blob_name)) ELSE <<>>

lower_char(c) ==
    IF c = "P" THEN "p" ELSE IF c = "D" THEN "d" ELSE IF c = "F" THEN "f" ELSE c

\* str.lower() on the characters of the model
lower(s) == [i \in 1..Len(s) |-> lower_char(s[i])]

endswith(s, suffix) ==
    /\ Len(s) >= Len(suffix)
    /\ SubSeq(s, Len(s) - Len(suffix) + 1, Len(s)) = suffix

startswith(s, prefix) ==
    /\ Len(s) >= Len(prefix)
    /\ SubSeq(s, 1, Len(prefix)) = prefix

\* line 173: b.name.lower().endswith(".pdf")
is_pdf(name) == endswith(lower(name), <<".", "p", "d", "f">>)

BlobNamed(name) == CHOOSE i \in 1..Len(corpus) : corpus[i].name = name

----------------------------------------------------------------------------
(* process_pdf_blob, ingest.py:130-163 *)

\* lines 142-145: page.extract_text(), a failure gives ""
extract_text(page) == IF page.ok THEN page.text ELSE <<>>

process_pdf_blob_enter(blob_name) ==
    /\ do_call("process_pdf_blob")
    /\ p_pc' = "open"
    /\ p_name' = blob_name
    /\ p_file' = basename(blob_name)
    /\ p_folder' = folder_of(blob_name)
    /\ p_pages' = <<>>
    /\ p_page' = 0
    /\ p_pieces' = <<>>
    /\ p_k' = 0
    /\ p_docs' = <<>>

\* lines 137-139: the blob is downloaded and parsed
ProcOpenOk ==
    /\ Top = "process_pdf_blob"
    /\ p_pc = "open"
    /\ corpus[BlobNamed(p_name)].readable
    /\ reads' = Append(reads, p_name)
    /\ p_pages' = corpus[BlobNamed(p_name)].pages
    /\ p_page' = 1
    /\ p_pc' = "page"
    /\ UNCHANGED <<p_name, p_file, p_folder, p_pieces, p_k, p_docs>>
    /\ UNCHANGED <<ctlVars, runs, index, nextId, corpus, embedVars, uploadVars,
                   cleanupVars, reingestVars, mainVars, outside>>

\* lines 137-138: the download fails, or PdfReader rejects the content
ProcOpenFail ==
    /\ Top = "process_pdf_blob"
    /\ p_pc = "open"
    /\ reads' = Append(reads, p_name)
    /\ \E err \in {"download"} \cup
                  (IF corpus[BlobNamed(p_name)].readable THEN {} ELSE {"parse"}) :
          do_raise("process_pdf_blob", err)
    /\ UNCHANGED <<procVars>>
    /\ UNCHANGED <<runs, index, nextId, corpus, embedVars, uploadVars,
                   cleanupVars, reingestVars, mainVars, outside>>

\* a variant in which a page whose extraction fails ends the page loop
ProcPage_stop_at_failure ==
    /\ Top = "process_pdf_blob"
    /\ p_pc = "page"
    /\ p_page <= Len(p_pages)
    /\ LET text == extract_text(p_pages[p_page]) IN
        IF ~p_pages[p_page].ok
        THEN /\ p_page' = Len(p_pages) + 1
             /\ UNCHANGED <<p_pc, p_pieces, p_k>>
        ELSE IF text = <<>>
        THEN /\ p_page' = p_page + 1
             /\ UNCHANGED <<p_pc, p_pieces, p_k>>
        ELSE /\ p_pieces' = split_text(text, CHUNK_SIZE, CHUNK_OVERLAP)
             /\ p_k' = 1
             /\ p_pc' = "piece"
             /\ UNCHANGED p_page
    /\ UNCHANGED <<p_name, p_file, p_folder, p_pages, p_docs>>
    /\ UNCHANGED <<ctlVars, runs, index, nextId, envVars, embedVars, uploadVars,
                   cleanupVars, reingestVars, mainVars, outside>>

\* lines 141-149: the next page; without text it is skipped, else it is split
ProcPage ==
    /\ Top = "process_pdf_blob"
    /\ p_pc = "page"
    /\ p_page <= Len(p_pages)
    /\ LET text == extract_text(p_pages[p_page]) IN
        IF text = <<>>
        THEN /\ p_page' = p_page + 1
             /\ UNCHANGED <<p_pc, p_pieces, p_k>>
        ELSE /\ p_pieces' = split_text(text, CHUNK_SIZE, CHUNK_OVERLAP)
             /\ p_k' = 1
             /\ p_pc' = "piece"
             /\ UNCHANGED p_page
    /\ UNCHANGED <<p_name, p_file, p_folder, p_pages, p_docs>>
    /\ UNCHANGED <<ctlVars, runs, index, nextId, envVars, embedVars, uploadVars,
                   cleanupVars, reingestVars, mainVars, outside>>

\* lines 149-150: the next piece of the page is embedded
ProcPiece ==
    /\ Top = "process_pdf_blob"
    /\ p_pc = "piece"
    /\ p_k <= Len(p_pieces)
    /\ get_embedding_enter(p_pieces[p_k])
    /\ p_pc' = "append"
    /\ UNCHANGED <<p_name, p_file, p_folder, p_pages, p_page, p_pieces, p_k, p_docs>>
    /\ UNCHANGED <<runs, index, nextId, envVars, uploadVars, cleanupVars,
                   reingestVars, mainVars, outside>>

\* lines 151-162: get_embedding has returned; the record is appended with a
\* fresh chunk id
ProcAppend ==
    /\ Top = "process_pdf_blob"
    /\ p_pc = "append"
    /\ p_docs' = Append(p_docs, make_doc(nextId, p_name, p_file, p_folder,
                                         p_page, p_pieces[p_k], e_ret[1]))
    /\ nextId' = nextId + 1
    /\ p_k' = p_k + 1
    /\ p_pc' = "piece"
    /\ UNCHANGED <<p_name, p_file, p_folder, p_pages, p_page, p_pieces>>
    /\ UNCHANGED <<ctlVars, runs, index, envVars, embedVars, uploadVars,
                   cleanupVars, reingestVars, mainVars, outside>>

\* line 149: the pieces of the page are exhausted, on to the next page
ProcPageDone ==
    /\ Top = "process_pdf_blob"
    /\ p_pc = "piece"
    /\ p_k > Len(p_pieces)
    /\ p_page' = p_page + 1
    /\ p_pc' = "page"
    /\ UNCHANGED <<p_name, p_file, p_folder, p_pages, p_pieces, p_k, p_docs>>
    /\ UNCHANGED <<ctlVars, runs, index, nextId, envVars, embedVars, uploadVars,
                   cleanupVars, reingestVars, mainVars, outside>>

\* line 163: return docs
ProcReturn ==
    /\ Top = "process_pdf_blob"
    /\ p_pc = "page"
    /\ p_page > Len(p_pages)
    /\ do_return
    /\ UNCHANGED <<procVars>>
    /\ UNCHANGED <<runs, index, nextId, envVars, embedVars, uploadVars,
                   cleanupVars, reingestVars, mainVars, outside>>

----------------------------------------------------------------------------
(* reingest_from_blob, ingest.py:167-191 *)

reingest_from_blob_enter(prefix) ==
    /\ do_call("reingest_from_blob")
    /\ r_pc' = "list"
    /\ r_prefix' = prefix
    /\ r_blobs' = <<>>
    /\ r_i' = 0
    /\ r_total' = 0
    /\ r_ret' = <<>>

\* line 173: the names under the prefix that end in .pdf, in listing order
list_pdf_blobs(blobs, prefix) ==
    LET names == [i \in 1..Len(blobs) |-> blobs[i].name] IN
    SelectSeq(names, LAMBDA n : startswith(n, prefix) /\ is_pdf(n))

\* lines 173-177: the container is listed
ReingestListOk ==
    /\ Top = "reingest_from_blob"
    /\ r_pc = "list"
    /\ r_blobs' = list_pdf_blobs(corpus, r_prefix)
    /\ r_i' = 1
    /\ r_pc' = "loop"
    /\ UNCHANGED <<r_prefix, r_total, r_ret>>
    /\ UNCHANGED <<ctlVars, runs, index, nextId, envVars, embedVars, uploadVars,
                   cleanupVars, procVars, mainVars, outside>>

\* line 173: listing the container fails
ReingestListFail ==
    /\ Top = "reingest_from_blob"
    /\ r_pc = "list"
    /\ do_raise("reingest_from_blob", "list")
    /\ UNCHANGED <<reingestVars>>
    /\ UNCHANGED <<runs, index, nextId, envVars, embedVars, uploadVars,
                   cleanupVars, procVars, mainVars, outside>>

\* lines 180-182: the next blob is handed to process_pdf_blob
ReingestNext ==
    /\ Top = "reingest_from_blob"
    /\ r_pc = "loop"
    /\ r_i <= Len(r_blobs)
    /\ process_pdf_blob_enter(r_blobs[r_i])
    /\ r_pc' = "processed"
    /\ UNCHANGED <<r_prefix, r_blobs, r_i, r_total, r_ret>>
    /\ UNCHANGED <<runs, index, nextId, envVars, embedVars, uploadVars,
                   cleanupVars, mainVars, outside>>

\* lines 183-188: docs came back; they are uploaded, or the blob is skipped
\* when there is none
ReingestProcessed ==
    /\ Top = "reingest_from_blob"
    /\ r_pc = "processed"
    /\ IF p_docs # <<>>
       THEN /\ upload_docs_batched_enter(p_docs, BATCH_UPLOAD)
            /\ r_pc' = "uploaded"
            /\ UNCHANGED r_i
       ELSE /\ r_i' = r_i + 1
            /\ r_pc' = "loop"
            /\ UNCHANGED <<ctlVars, uploadVars>>
    /\ UNCHANGED <<r_prefix, r_blobs, r_total, r_ret>>
    /\ UNCHANGED <<runs, index, nextId, envVars, embedVars, cleanupVars,
                   procVars, mainVars, outside>>

\* lines 185-186: the upload has returned; the chunks are counted
ReingestUploaded ==
    /\ Top = "reingest_from_blob"
    /\ r_pc = "uploaded"
    /\ r_total' = r_total + Len(p_docs)
    /\ r_i' = r_i + 1
    /\ r_pc' = "loop"
    /\ UNCHANGED <<r_prefix, r_blobs, r_ret>>
    /\ UNCHANGED <<ctlVars, runs, index, nextId, envVars, embedVars, uploadVars,
                   cleanupVars, procVars, mainVars, outside>>

\* lines 190-191: every blob is done, return total_chunks
ReingestReturn ==
    /\ Top = "reingest_from_blob"
    /\ r_pc = "loop"
    /\ r_i > Len(r_blobs)
    /\ r_ret' = <<r_total>>
    /\ do_return
    /\ UNCHANGED <<r_pc, r_prefix, r_blobs, r_i, r_total>>
    /\ UNCHANGED <<runs, index, nextId, envVars, embedVars, uploadVars,
                   cleanupVars, procVars, mainVars, outside>>

----------------------------------------------------------------------------
(* The main flow, ingest.py:195-202 *)

\* the job is started, for the first time or again after it has completed,
\* as a new process: no function has run yet
MainStart ==
    /\ status \in {"idle", "returned"}
    /\ runs < MaxRuns
    /\ runs' = runs + 1
    /\ stack' = <<"main">>
    /\ status' = "running"
    /\ error' = NoError
    /\ reads' = <<>>
    /\ m_pc' = "step1"
    /\ m_deleted' = 0
    /\ m_total' = 0
    /\ m_firstId' = nextId
    /\ e_text' = <<>> /\ e_attempt' = 0 /\ e_log' = <<>> /\ e_ret' = <<>>
    /\ u_docs' = <<>> /\ u_bs' = 1 /\ u_i' = 0 /\ u_sent' = <<>>
    /\ c_pc' = "" /\ c_total' = 0 /\ c_batch' = {} /\ c_ret' = <<>>
    /\ p_pc' = "" /\ p_name' = <<>> /\ p_file' = <<>> /\ p_folder' = <<>>
    /\ p_pages' = <<>> /\ p_page' = 0 /\ p_pieces' = <<>> /\ p_k' = 0
    /\ p_docs' = <<>>
    /\ r_pc' = "" /\ r_prefix' = <<>> /\ r_blobs' = <<>> /\ r_i' = 0
    /\ r_total' = 0 /\ r_ret' = <<>>
    /\ UNCHANGED <<index, nextId, corpus, c_log, outside>>

\* lines 196-197: step 1, cleanup_invalid_docs()
MainCleanup ==
    /\ Top = "main"
    /\ m_pc = "step1"
    /\ cleanup_invalid_docs_enter
    /\ m_pc' = "step2"
    /\ UNCHANGED <<m_deleted, m_total, m_firstId>>
    /\ UNCHANGED <<runs, index, nextId, envVars, embedVars, uploadVars,
                   procVars, reingestVars, outside>>

\* lines 197-201: cleanup has returned; step 2, reingest_from_blob("")
MainReingest ==
    /\ Top = "main"
    /\ m_pc = "step2"
    /\ m_deleted' = c_ret[1]
    /\ reingest_from_blob_enter(<<>>)
    /\ m_pc' = "end"
    /\ UNCHANGED <<m_total, m_firstId>>
    /\ UNCHANGED <<runs, index, nextId, envVars, embedVars, uploadVars,
                   cleanupVars, procVars, outside>>

\* lines 201-202: reingest has returned; the job ends
MainEnd ==
    /\ Top = "main"
    /\ m_pc = "end"
    /\ m_total' = r_ret[1]
    /\ m_pc' = "done"
    /\ do_return
    /\ UNCHANGED <<m_deleted, m_firstId>>
    /\ UNCHANGED <<runs, index, nextId, envVars, embedVars, uploadVars,
                   cleanupVars, procVars, reingestVars, outside>>

----------------------------------------------------------------------------
(* The ask request, api_server.py:49-177 *)

DEFAULT_TOP_K == 5
CONTEXT_HITS == 8
CHUNK_CHARS == 1200

\* line 173: req.top_k or 5 (0 stands for a top_k that is None or 0)
effective_top_k(top_k) == IF top_k = 0 THEN DEFAULT_TOP_K ELSE top_k

\* a hit as the index returns it; the score may be absent
Hits ==
    [file : {"a.pdf"}, folder : {"d"}, page : {1, 2}, url : {"u"},
     chunk : {<<"a", "b">>},
     score : {<<>>} \cup {<<n>> : n \in 0..MaxScore}]

HitLists(k) == UNION {[1..n -> Hits] : n \in 0..Min(k, MaxHits)}

\* what search_docs returns: the hits, or the error sentinel
\* {"error": r.text, "status_code": r.status_code} (lines 77 and 80)
hits_value(hits) ==
    [kind |-> "hits", hits |-> hits, error |-> "", status_code |-> 200]

error_sentinel(body, code) ==
    [kind |-> "error", hits |-> <<>>, error |-> body, status_code |-> code]

\* len(docs): the number of hits, or the two keys of the sentinel (line 175)
len_docs(docs) == IF docs.kind = "hits" THEN Len(docs.hits) ELSE 2

\* d.get("@search.score", 0)
score_of(d) == IF d.score = <<>> THEN 0 ELSE d.score[1]

SeqMax(q) == CHOOSE m \in {q[i] : i \in 1..Len(q)} : \A i \in 1..Len(q) : q[i] <= m

SeqMin(q) == CHOOSE m \in {q[i] : i \in 1..Len(q)} : \A i \in 1..Len(q) : q[i] >= m

\* a variant that takes the smallest score for the largest
max_score_of_min(hits) ==
    LET m == SeqMin([i \in 1..Len(hits) |-> score_of(hits[i])]) IN
    IF m = 0 THEN 1 ELSE m

\* line 152: max(d.get("@search.score", 0) for d in docs) or 1
max_score_of(hits) ==
    LET m == SeqMax([i \in 1..Len(hits) |-> score_of(hits[i])]) IN
    IF m = 0 THEN 1 ELSE m

\* lines 153-154: int((raw_score / max_score) * 100).  On the integer scores
\* of the model the truncated float product equals the integer quotient.
confidence_of(hits) == (score_of(hits[1]) * 100) \div max_score_of(hits)

\* lines 106-115: a block for each of the first 8 hits, the chunk cut to 1200
context_of(hits) ==
    [i \in 1..Min(CONTEXT_HITS, Len(hits)) |->
        [folder |-> hits[i].folder, file |-> hits[i].file, page |-> hits[i].page,
         chunk |-> Slice(hits[i].chunk, 0, Min(CHUNK_CHARS, Len(hits[i].chunk)))]]

\* lines 158-163: the reference is built from the first hit
reference_of(hits) ==
    [file |-> hits[1].file, folder |-> hits[1].folder, page |-> hits[1].page,
     url |-> hits[1].url]

\* lines 85-86 and 107: the path answer_with_gpt takes.  The error sentinel
\* counts as an error only when its "error" text is not empty; a sentinel
\* with an empty text is neither empty nor an error and reaches docs[:8],
\* which a dict does not support.
answer_branch(docs) ==
    LET falsy == docs.kind = "hits" /\ docs.hits = <<>>
        is_error == docs.kind = "error" /\ docs.error # ""
    IN  IF falsy \/ is_error
        THEN (IF is_error THEN "error" ELSE "fallback")
        ELSE (IF docs.kind = "error" THEN "type_error" ELSE "grounded")

\* lines 175-177: ask adds hits and markdown to the result and returns it
response(answer, reference, confidence, docs) ==
    [answer |-> answer, reference |-> reference, confidence |-> confidence,
     hits |-> len_docs(docs), markdown |-> TRUE]

NoDocs == [kind |-> "none", hits |-> <<>>, error |-> "", status_code |-> 0]

\* line 172: a request arrives
AskStart ==
    /\ a_pc = "idle"
    /\ a_topk' \in 0..MaxTopK
    /\ a_pc' = "embed"
    /\ UNCHANGED <<a_calls, a_docs, a_context, a_result, a_fault>>
    /\ UNCHANGED <<splitVars, ingestVars>>

\* lines 55 and 49-51: the query is embedded
AskEmbedOk ==
    /\ a_pc = "embed"
    /\ a_calls' = Append(a_calls, "embedding")
    /\ a_pc' = "query"
    /\ UNCHANGED <<a_topk, a_docs, a_context, a_result, a_fault>>
    /\ UNCHANGED <<splitVars, ingestVars>>

\* a variant that tries the embedding service again after a failure
AskEmbedFail_retry ==
    /\ a_pc = "embed"
    /\ Len(a_calls) < MAX_ATTEMPTS
    /\ a_calls' = Append(a_calls, "embedding")
    /\ UNCHANGED <<a_pc, a_topk, a_docs, a_context, a_result, a_fault>>
    /\ UNCHANGED <<splitVars, ingestVars>>

\* lines 49-51: the embedding service fails; nothing catches the exception
AskEmbedFail ==
    /\ a_pc = "embed"
    /\ a_calls' = Append(a_calls, "embedding")
    /\ a_pc' = "fault"
    /\ a_fault' = "embedding"
    /\ UNCHANGED <<a_topk, a_docs, a_context, a_result>>
    /\ UNCHANGED <<splitVars, ingestVars>>

\* lines 74-77: the index answers 200 with at most top_k hits
AskQueryOk ==
    /\ a_pc = "query"
    /\ a_calls' = Append(a_calls, "index_query")
    /\ \E hits \in HitLists(effective_top_k(a_topk)) : a_docs' = hits_value(hits)
    /\ a_pc' = "compose"
    /\ UNCHANGED <<a_topk, a_context, a_result, a_fault>>
    /\ UNCHANGED <<splitVars, ingestVars>>

\* lines 74-80: the index answers with an error status; raise_for_status
\* raises HTTPError and the sentinel is returned
AskQueryHttpError ==
    /\ a_pc = "query"
    /\ a_calls' = Append(a_calls, "index_query")
    /\ \E body \in {"", "Bad Request"}, code \in {400, 503} :
          a_docs' = error_sentinel(body, code)
    /\ a_pc' = "compose"
    /\ UNCHANGED <<a_topk, a_context, a_result, a_fault>>
    /\ UNCHANGED <<splitVars, ingestVars>>

\* lines 74 and 77: requests.post raises (no connection, timeout), or the
\* body of a 200 answer is no JSON; neither is an HTTPError
AskQueryRaise ==
    /\ a_pc = "query"
    /\ a_calls' = Append(a_calls, "index_query")
    /\ a_pc' = "fault"
    /\ a_fault' \in {"transport", "json"}
    /\ UNCHANGED <<a_topk, a_docs, a_context, a_result>>
    /\ UNCHANGED <<splitVars, ingestVars>>

\* lines 86-91: the sentinel with an error text becomes the answer
AskAnswerError ==
    /\ a_pc = "compose"
    /\ answer_branch(a_docs) = "error"
    /\ a_result' = <<response(<<"Azure Search Error: ", a_docs.error>>, <<>>, 0, a_docs)>>
    /\ a_pc' = "done"
    /\ UNCHANGED <<a_topk, a_calls, a_docs, a_context, a_fault>>
    /\ UNCHANGED <<splitVars, ingestVars>>

\* line 107: docs[:8] on the sentinel dict raises TypeError
AskAnswerTypeError ==
    /\ a_pc = "compose"
    /\ answer_branch(a_docs) = "type_error"
    /\ a_pc' = "fault"
    /\ a_fault' = "TypeError"
    /\ UNCHANGED <<a_topk, a_calls, a_docs, a_context, a_result>>
    /\ UNCHANGED <<splitVars, ingestVars>>

\* lines 92-103 (no hits) and 106-165 (hits): the completion service answers
AskCompletionOk ==
    /\ a_pc = "compose"
    /\ answer_branch(a_docs) \in {"fallback", "grounded"}
    /\ a_calls' = Append(a_calls, "completion")
    /\ \E text \in {"text"} :
        IF answer_branch(a_docs) = "fallback"
        THEN /\ a_context' = <<>>
             /\ a_result' = <<response(<<text>>, <<>>, 0, a_docs)>>
        ELSE /\ a_context' = context_of(a_docs.hits)
             /\ a_result' = <<response(<<text>>, <<reference_of(a_docs.hits)>>,
                                       confidence_of(a_docs.hits), a_docs)>>
    /\ a_pc' = "done"
    /\ UNCHANGED <<a_topk, a_docs, a_fault>>
    /\ UNCHANGED <<splitVars, ingestVars>>

\* lines 94 and 137: the completion service fails; nothing catches it
AskCompletionFail ==
    /\ a_pc = "compose"
    /\ answer_branch(a_docs) \in {"fallback", "grounded"}
    /\ a_calls' = Append(a_calls, "completion")
    /\ a_context' = IF answer_branch(a_docs) = "grounded"
                    THEN context_of(a_docs.hits) ELSE <<>>
    /\ a_pc' = "fault"
    /\ a_fault' = "completion"
    /\ UNCHANGED <<a_topk, a_docs, a_result>>
    /\ UNCHANGED <<splitVars, ingestVars>>

----------------------------------------------------------------------------
(* Initial states *)

SplitIdle ==
    /\ s_pc = "idle" /\ s_text = <<>> /\ s_size = 1 /\ s_overlap = 0
    /\ s_chunks = <<>> /\ s_windows = <<>>

AskIdle ==
    /\ a_pc = "idle" /\ a_topk = 0 /\ a_calls = <<>>
    /\ a_docs = NoDocs
    /\ a_context = <<>> /\ a_result = <<>> /\ a_fault = ""

\* the locals of every function of the ingestion program before it runs
LocalsIdle ==
    /\ e_text = <<>> /\ e_attempt = 0 /\ e_log = <<>> /\ e_ret = <<>>
    /\ u_docs = <<>> /\ u_bs = 1 /\ u_i = 0 /\ u_sent = <<>>
    /\ c_pc = "" /\ c_total = 0 /\ c_batch = {} /\ c_log = <<>> /\ c_ret = <<>>
    /\ p_pc = "" /\ p_name = <<>> /\ p_file = <<>> /\ p_folder = <<>>
    /\ p_pages = <<>> /\ p_page = 0 /\ p_pieces = <<>> /\ p_k = 0 /\ p_docs = <<>>
    /\ r_pc = "" /\ r_prefix = <<>> /\ r_blobs = <<>> /\ r_i = 0 /\ r_total = 0 /\ r_ret = <<>>
    /\ m_pc = "" /\ m_deleted = 0 /\ m_total = 0 /\ m_firstId = 0

ProgramIdle ==
    /\ stack = <<>> /\ status = "idle" /\ error = NoError /\ runs = 0
    /\ reads = <<>>
    /\ LocalsIdle

IngestIdle ==
    /\ ProgramIdle
    /\ index = {} /\ nextId = 1 /\ corpus = <<>>

----------------------------------------------------------------------------
(* split_text on its own: any text, any 0 <= overlap < size *)

InitSplit ==
    /\ s_pc = "call"
    /\ s_text \in TextsUpTo(MaxLen)
    /\ s_size \in 1..MaxSize
    /\ s_overlap \in 0..(s_size - 1)
    /\ s_chunks = <<>> /\ s_windows = <<>>
    /\ IngestIdle /\ AskIdle

SplitCall ==
    /\ s_pc = "call"
    /\ s_chunks' = split_text(s_text, s_size, s_overlap)
    /\ s_windows' = split_windows(s_text, s_size, s_overlap)
    /\ s_pc' = "done"
    /\ UNCHANGED <<s_text, s_size, s_overlap, ingestVars, askVars>>

NextSplit == SplitCall

SpecSplit == InitSplit /\ [][NextSplit]_vars

----------------------------------------------------------------------------
(* get_embedding on its own: one call with any text *)

InitEmbed == SplitIdle /\ IngestIdle /\ AskIdle

EmbedCall ==
    /\ status = "idle"
    /\ \E t \in TextsUpTo(MaxPieceLen) : get_embedding_enter(t)
    /\ runs' = runs + 1
    /\ UNCHANGED <<index, nextId, envVars, uploadVars, cleanupVars,
                   procVars, reingestVars, mainVars, outside>>

NextEmbed == EmbedCall \/ EmbedAttemptOk \/ EmbedAttemptFail

SpecEmbed == InitEmbed /\ [][NextEmbed]_vars

----------------------------------------------------------------------------
(* upload_docs_batched on its own: any records, any batch_size >= 1 *)

StaleName == <<"o", ".", "p", "d", "f">>

InitUpload ==
    /\ SplitIdle /\ AskIdle /\ ProgramIdle
    /\ corpus = <<>>
    /\ index \in {{}, {seed_rec(1, StaleName)}}
    /\ nextId = 1

UploadCall ==
    /\ status = "idle"
    /\ \E n \in 0..MaxDocs, bs \in 1..MaxBatch :
        \E pg \in [1..n -> 1..2] :
            upload_docs_batched_enter(
                [i \in 1..n |-> make_doc(i, StaleName, StaleName, <<>>, pg[i], <<"a">>,
                                      embedding_of(<<"a">>))],
                bs)
    /\ runs' = runs + 1
    /\ UNCHANGED <<index, nextId, envVars, embedVars, cleanupVars,
                   procVars, reingestVars, mainVars, outside>>

NextUpload == UploadCall \/ UploadBatchOk \/ UploadBatchFail \/ UploadReturn

SpecUpload == InitUpload /\ [][NextUpload]_vars

----------------------------------------------------------------------------
(* cleanup_invalid_docs on its own, run again after it has returned *)

SeedFiles == {Null, <<>>, StaleName}

\* every index of at most MaxSeed records, valid or not
SeedIndexes ==
    UNION {{{seed_rec(id, f[id]) : id \in ids} : f \in [ids -> SeedFiles]}
              : ids \in SUBSET (1..MaxSeed)}

InitCleanup ==
    /\ SplitIdle /\ AskIdle /\ ProgramIdle
    /\ corpus = <<>>
    /\ index \in SeedIndexes
    /\ nextId = MaxSeed + 1

CleanupCall ==
    /\ status \in {"idle", "returned"}
    /\ runs < MaxRuns
    /\ cleanup_invalid_docs_enter
    /\ runs' = runs + 1
    /\ UNCHANGED <<index, nextId, envVars, embedVars, uploadVars,
                   procVars, reingestVars, mainVars, outside>>

NextCleanup ==
    \/ CleanupCall
    \/ CleanupSearchOk \/ CleanupSearchFail
    \/ CleanupDeleteOk \/ CleanupDeleteFail

SpecCleanup == InitCleanup /\ [][NextCleanup]_vars

----------------------------------------------------------------------------
(* The whole job: cleanup then re-ingestion over a container, run again *)

PdfSuffix == <<".", "p", "d", "f">>

Page(ok, text) == [ok |-> ok, text |-> text]

\* the blobs a container may hold: a PDF whose first page cannot be
\* extracted, a PDF in a folder with an upper-case extension, a file that is
\* no PDF, a PDF that cannot be parsed, and a PDF without extractable text
Catalogue ==
    { [name |-> <<"a">> \o PdfSuffix, readable |-> TRUE,
       pages |-> <<Page(FALSE, <<>>), Page(TRUE, <<" ", "a">>)>>],
      [name |-> <<"d", "/", "b", ".", "P", "D", "F">>, readable |-> TRUE,
       pages |-> <<Page(TRUE, <<"a", " ", "b">>), Page(TRUE, <<"b">>)>>],
      [name |-> <<"d", "/", "n", ".", "t", "x", "t">>, readable |-> TRUE,
       pages |-> <<>>],
      [name |-> <<"d", "/", "e", "/", "c">> \o PdfSuffix, readable |-> FALSE,
       pages |-> <<>>],
      [name |-> <<"s", " ", "p">> \o PdfSuffix, readable |-> TRUE,
       pages |-> <<Page(TRUE, <<" ">>), Page(TRUE, <<>>)>>] }

\* the containers: sequences of at most MaxBlobs blobs with distinct names
Corpora ==
    UNION {{c \in [1..n -> Catalogue] :
               \A i, j \in 1..n : i # j => c[i].name # c[j].name}
              : n \in 0..MaxBlobs}

\* the index before the first run: empty, or holding a record left by a
\* malformed write, with an empty or a null file
InitIngest ==
    /\ SplitIdle /\ AskIdle /\ ProgramIdle
    /\ corpus \in Corpora
    /\ index \in {{}, {seed_rec(1, <<>>)}, {seed_rec(1, Null)}}
    /\ nextId = 2

NextIngest ==
    \/ MainStart \/ MainCleanup \/ MainReingest \/ MainEnd
    \/ CleanupSearchOk \/ CleanupSearchFail
    \/ CleanupDeleteOk \/ CleanupDeleteFail
    \/ ReingestListOk \/ ReingestListFail \/ ReingestNext
    \/ ReingestProcessed \/ ReingestUploaded \/ ReingestReturn
    \/ ProcOpenOk \/ ProcOpenFail \/ ProcPage \/ ProcPiece \/ ProcAppend
    \/ ProcPageDone \/ ProcReturn
    \/ EmbedAttemptOk \/ EmbedAttemptFail
    \/ UploadBatchOk \/ UploadBatchFail \/ UploadReturn

SpecIngest == InitIngest /\ [][NextIngest]_vars

----------------------------------------------------------------------------
(* One ask request with any answers of the three services *)

InitAsk == SplitIdle /\ IngestIdle /\ AskIdle

NextAsk ==
    \/ AskStart
    \/ AskEmbedOk \/ AskEmbedFail
    \/ AskQueryOk \/ AskQueryHttpError \/ AskQueryRaise
    \/ AskAnswerError \/ AskAnswerTypeError
    \/ AskCompletionOk \/ AskCompletionFail

SpecAsk == InitAsk /\ [][NextAsk]_vars

----------------------------------------------------------------------------
(* Properties *)

\* the text between the first and the last character that is not white space
Trimmed(text) ==
    LET ns == {i \in 1..Len(text) : text[i] # " "} IN
    IF ns = {} THEN <<>>
    ELSE SubSeq(text, CHOOSE i \in ns : \A j \in ns : i <= j,
                      CHOOSE i \in ns : \A j \in ns : i >= j)

\* C4: for 0 <= overlap < size, split_text returns the windows of the trimmed
\* text in order: the first starts at offset 0, each later one at
\* max(0, previous end - overlap), every window but the last has length size,
\* the last ends at the length of the trimmed text, consecutive windows leave
\* no gap so that every character lies in a window, and the result is empty
\* for an empty or white-space-only text.
C4_SplitWindows ==
    s_pc = "done" =>
        LET t == Trimmed(s_text)
            n == Len(t)
            w == s_windows
            c == s_chunks
            k == Len(w)
        IN  /\ Len(c) = k
            /\ (n = 0) = (c = <<>>)
            /\ n > 0 =>
                /\ w[1].start = 0
                /\ w[k].end = n
                /\ \A i \in 2..k :
                    /\ w[i].start = Max(0, w[i-1].end - s_overlap)
                    /\ w[i].start <= w[i-1].end
                /\ \A i \in 1..(k - 1) :
                    /\ w[i].end - w[i].start = s_size
                    /\ Len(c[i]) = s_size
                /\ \A i \in 1..k :
                    /\ 0 <= w[i].start /\ w[i].start < w[i].end /\ w[i].end <= n
                    /\ c[i] = SubSeq(t, w[i].start + 1, w[i].end)
                /\ \A q \in 1..n : \E i \in 1..k : w[i].start < q /\ q <= w[i].end

\* C4 witness: a text with white space to trim, split with an overlap into
\* several windows of which the last is shorter than size
C4_Witness ==
    /\ s_pc = "done"
    /\ s_text # <<>> /\ s_text[1] = " "
    /\ s_overlap >= 1
    /\ Len(s_chunks) >= 2
    /\ Len(s_chunks[Len(s_chunks)]) < s_size

AttemptsAt == {i \in 1..Len(e_log) : e_log[i].kind = "attempt"}

SleepsAt == {i \in 1..Len(e_log) : e_log[i].kind = "sleep"}

\* C6: one call of get_embedding makes attempts one after another until one
\* succeeds, at most 3: it returns the vector of the first successful attempt
\* and makes no attempt after it; it sleeps only between a failed attempt and
\* the next attempt; if all 3 attempts fail it raises the failure of the
\* third; it never makes a fourth attempt and never returns without a vector.
C6_BoundedRetry ==
    LET n == Len(e_log) IN
    /\ Cardinality(AttemptsAt) <= 3
    /\ \A i \in AttemptsAt : e_log[i].ok => i = n
    /\ \A i \in SleepsAt :
        /\ i > 1 /\ e_log[i-1].kind = "attempt" /\ ~e_log[i-1].ok
        /\ i < n => e_log[i+1].kind = "attempt"
    /\ status = "running" /\ runs > 0 => Cardinality(AttemptsAt) < 3
    /\ status \in {"returned", "raised"} => n > 0 /\ e_log[n].kind = "attempt"
    /\ status = "returned" =>
        /\ e_log[n].ok
        /\ e_ret = e_log[n].vec
        /\ e_ret = <<[embeds |-> e_text]>>
    /\ status = "raised" =>
        /\ Cardinality(AttemptsAt) = 3
        /\ \A i \in AttemptsAt : ~e_log[i].ok
        /\ error = [src |-> "get_embedding", err |-> e_log[n].err]
        /\ e_ret = <<>>

\* C6 witness: all three attempts failed with different failures and the call
\* raised
C6_Witness ==
    /\ status = "raised"
    /\ Len(e_log) = 5
    /\ e_log[1].err # e_log[5].err /\ e_log[3].err # e_log[5].err

RECURSIVE SentRecords(_)
SentRecords(sent) ==
    IF sent = <<>> THEN <<>> ELSE Head(sent).batch \o SentRecords(Tail(sent))

\* C7: upload_docs_batched sends consecutive batches of at most batch_size
\* records in input order, so that with no failure every record is sent
\* exactly once and in order; when the write of batch j fails the failure is
\* raised, no batch after j is sent and the batches before j stay applied.
C7_BatchedUpload ==
    LET n == Len(u_sent) IN
    /\ \A j \in 1..n :
        /\ u_sent[j].batch =
              SubSeq(u_docs, (j - 1) * u_bs + 1, Min(j * u_bs, Len(u_docs)))
        /\ 1 <= Len(u_sent[j].batch) /\ Len(u_sent[j].batch) <= u_bs
        /\ ~u_sent[j].ok => j = n /\ status = "raised"
        /\ u_sent[j].ok =>
              \A i \in 1..Len(u_sent[j].batch) : stored(u_sent[j].batch[i]) \in index
    /\ status = "returned" => SentRecords(u_sent) = u_docs
    /\ status = "raised" =>
        /\ n > 0 /\ ~u_sent[n].ok
        /\ error.src = "upload_docs_batched"

\* C7 witness: the second batch failed while records were still to be sent
C7_Witness ==
    /\ status = "raised"
    /\ Len(u_sent) = 2
    /\ u_bs >= 2
    /\ Len(u_docs) > 2 * u_bs

LogOfRun(k) == SelectSeq(c_log, LAMBDA ev : ev.run = k)

RECURSIVE DeletedCount(_)
DeletedCount(log) ==
    IF log = <<>> THEN 0
    ELSE (IF Head(log).op = "delete" THEN Cardinality(Head(log).ids) ELSE 0)
            + DeletedCount(Tail(log))

\* C8: cleanup_invalid_docs repeats query-then-delete until a query returns
\* no match, and when it returns no record with a null or empty file is left
\* in the index; a second run in immediate succession issues no delete
\* request and returns 0.
C8_CleanupIdempotent ==
    LET log == LogOfRun(runs) IN
    /\ \A i \in 1..Len(log) :
        /\ log[i].op = (IF i % 2 = 1 THEN "search" ELSE "delete")
        /\ log[i].op = "delete" => log[i].ids # {}
    /\ status = "returned" =>
        /\ \A r \in index : r.file # Null /\ r.file # <<>>
        /\ Len(log) % 2 = 1
        /\ c_ret = <<DeletedCount(log)>>
        /\ runs >= 2 => c_ret = <<0>> /\ log = <<[run |-> runs, op |-> "search", ids |-> {}]>>

\* C8 witness: the first run needed two delete requests, the second run
\* returned
C8_Witness ==
    /\ status = "returned"
    /\ runs = 2
    /\ Len(LogOfRun(1)) >= 5
    /\ index # {}

\* the records written to the index by the current run of the job
RunRecs == {r \in index : r.chunk_id >= m_firstId}

\* the records of the current run that point at the blob of the given name
RecsOf(name) == {r \in RunRecs : r.url.path = quote(name)}

\* what the extraction of a blob has to yield, page by page: one window,
\* the trimmed text, for each page whose text can be extracted and is not
\* blank (every text of the model is shorter than CHUNK_SIZE)
ExpectedOf(name) ==
    LET pages == corpus[BlobNamed(name)].pages
        all == [k \in 1..Len(pages) |->
                   [page |-> k, chunk |-> Trimmed(pages[k].text), ok |-> pages[k].ok]]
        kept == SelectSeq(all, LAMBDA x : x.ok /\ x.chunk # <<>>)
    IN  [i \in 1..Len(kept) |-> [page |-> kept[i].page, chunk |-> kept[i].chunk]]

KeysOfDocs(docs) ==
    [i \in 1..Len(docs) |-> [page |-> docs[i].page, chunk |-> docs[i].chunk]]

KeySet(recs) == {[page |-> r.page, chunk |-> r.chunk] : r \in recs}

SeqSet(q) == {q[i] : i \in 1..Len(q)}

\* C1: after a run of the job that completes, from any index state, the
\* index reflects exactly the current corpus: every record comes from the
\* latest extraction of a PDF that exists, and no (source, page, window) is
\* represented by more than one record.
C1_IndexReflectsCorpus ==
    (status = "returned" /\ m_pc = "done") =>
        /\ \A r \in index :
            /\ r.chunk_id >= m_firstId
            /\ \E i \in 1..Len(corpus) :
                  is_pdf(corpus[i].name) /\ r.url.path = quote(corpus[i].name)
        /\ \A r1, r2 \in index :
              (r1.url = r2.url /\ r1.chunk = r2.chunk) => r1 = r2

\* C10: re-ingestion handles the PDFs one at a time in listing order, each
\* fully extracted before any of its records is written; when reading,
\* parsing or embedding fails for one object the run ends raised with no
\* record of that object written, no later object read, and the records of
\* the objects before it still in the index; a page whose text extraction
\* fails is skipped and the pages after it are still extracted.
C10_ReingestFailFast ==
    (r_pc \notin {"", "list"}) =>
        /\ Len(reads) <= Len(r_blobs)
        /\ reads = SubSeq(r_blobs, 1, Len(reads))
        /\ Len(reads) \in {r_i - 1, r_i}
        /\ \A j \in 1..Len(r_blobs) :
            /\ j < r_i =>
                /\ KeySet(RecsOf(r_blobs[j])) = SeqSet(ExpectedOf(r_blobs[j]))
                /\ Cardinality(RecsOf(r_blobs[j])) = Len(ExpectedOf(r_blobs[j]))
            /\ j > r_i => RecsOf(r_blobs[j]) = {}
            /\ (j = r_i /\ RecsOf(r_blobs[j]) # {}) => r_pc = "uploaded"
        /\ (r_pc = "uploaded" \/ (r_pc = "processed" /\ Top = "reingest_from_blob")) =>
            /\ p_name = r_blobs[r_i]
            /\ KeysOfDocs(p_docs) = ExpectedOf(p_name)
            /\ r_pc = "uploaded" => u_docs = p_docs
        /\ (status = "raised" /\ error.src \in {"process_pdf_blob", "get_embedding"}) =>
            /\ reads = SubSeq(r_blobs, 1, r_i)
            /\ RecsOf(r_blobs[r_i]) = {}
            /\ Cardinality(RunRecs) = r_total

\* C10 witness: the first PDF, whose first page could not be extracted, has
\* the record of its second page in the index; the second PDF failed in
\* get_embedding after a record had been built for it; a third PDF is left
C10_Witness ==
    /\ status = "raised"
    /\ error.src = "get_embedding"
    /\ Len(r_blobs) = 3
    /\ r_i = 2
    /\ p_docs # <<>>
    /\ ~corpus[BlobNamed(r_blobs[1])].pages[1].ok
    /\ \E r \in RecsOf(r_blobs[1]) : r.page = 2

AskEnded == a_pc \in {"done", "fault"}

\* C2: whatever the embedding, index and completion services answer, ask
\* returns a body with answer, reference and confidence and never ends in an
\* unhandled fault; a failing index query becomes an answer string.
C2_AskAlwaysAnswers ==
    AskEnded =>
        /\ a_pc = "done"
        /\ Len(a_result) = 1
        /\ {"answer", "reference", "confidence"} \subseteq DOMAIN a_result[1]
        /\ a_docs.kind = "error" =>
              a_result[1].answer = <<"Azure Search Error: ", a_docs.error>>

\* C3: whenever search_docs returned its error sentinel, for any status
\* code and any body including the empty one, answer_with_gpt returns
\* confidence 0 and no reference and makes no call to the completion service.
C3_SentinelDegrades ==
    (AskEnded /\ a_docs.kind = "error") =>
        /\ a_pc = "done"
        /\ Len(a_result) = 1
        /\ a_result[1].confidence = 0
        /\ a_result[1].reference = <<>>
        /\ \A i \in 1..Len(a_calls) : a_calls[i] # "completion"

Scores == [i \in 1..Len(a_docs.hits) |->
              IF a_docs.hits[i].score = <<>> THEN 0 ELSE a_docs.hits[i].score[1]]

TopIsBest == \A i \in 1..Len(Scores) : Scores[i] <= Scores[1]

Answered == a_pc = "done" /\ a_docs.kind = "hits" /\ a_docs.hits # <<>>

\* C5 as stated: for any non-empty hit list the confidence is within
\* [0, 100], and it is exactly 100 whenever the first hit's score equals the
\* largest score of the list.
C5_AsStated ==
    Answered =>
        /\ a_result[1].confidence \in 0..100
        /\ TopIsBest => a_result[1].confidence = 100

\* C5 amended: for any non-empty hit list the confidence is within
\* [0, 100]; it is exactly 100 whenever the first hit's score is the largest
\* of the list and is positive, and it is 0 when every score is zero or
\* absent.
C5_Confidence ==
    Answered =>
        /\ a_result[1].confidence \in 0..100
        /\ (TopIsBest /\ Scores[1] > 0) => a_result[1].confidence = 100
        /\ (\A i \in 1..Len(Scores) : Scores[i] = 0) => a_result[1].confidence = 0

\* C5 witness: the first of two hits has the larger, positive score and the
\* other hit has none
C5_Witness ==
    /\ Answered
    /\ Len(a_docs.hits) = 2
    /\ a_docs.hits[1].score = <<MaxScore>>
    /\ a_docs.hits[2].score = <<>>
    /\ a_result[1].confidence = 100

IsPrefix(p, q) == Len(p) <= Len(q) /\ p = SubSeq(q, 1, Len(p))

\* C9 as stated: every ask request makes exactly one embedding call, then
\* exactly one index query call, then zero or one completion call.
C9_AsStated ==
    AskEnded =>
        a_calls \in {<<"embedding", "index_query">>,
                     <<"embedding", "index_query", "completion">>}

\* C9 amended: every ask request makes exactly one embedding call; when
\* that call succeeds it makes exactly one index query call after it, and
\* after the index query zero or one completion call; when the embedding call
\* fails the request ends with no index query and no completion call.  No
\* service is called twice and no call precedes the one before it in this
\* order.
C9_CallOrder ==
    /\ IsPrefix(a_calls, <<"embedding", "index_query", "completion">>)
    /\ a_pc \in {"query", "compose"} \/ AskEnded => Len(a_calls) >= 1
    /\ a_pc = "compose" \/ a_pc = "done" => Len(a_calls) >= 2
    /\ AskEnded =>
        ((Len(a_calls) = 1) = (a_pc = "fault" /\ a_fault = "embedding"))

\* C9 witness: a request that made all three calls and returned
C9_Witness ==
    /\ a_pc = "done"
    /\ a_calls = <<"embedding", "index_query", "completion">>
    /\ a_docs.hits # <<>>

====
